---- MODULE Spec2Model ----
(***************************************************************************)
(* A model of the GoForthAndProsper interpreter: the bounded stack         *)
(* (stack.rs), the addressable dictionary (dictionary.rs), the identifier  *)
(* type (id.rs) and the evaluation engine (context.rs).                    *)
(*                                                                         *)
(* A token is a sequence of one-character strings, a line is a sequence of *)
(* tokens and separators.  Rust values are modelled as follows:            *)
(*   Option<T>      <<>> for None, <<x>> for Some(x)                       *)
(*   Result<T, E>   a record with an `err` field, "" meaning Ok            *)
(*   i32            an integer in I32_MIN..I32_MAX                         *)
(*   usize from `as usize`   a record, see AsUsize                         *)
(***************************************************************************)
EXTENDS Integers, Sequences, FiniteSets, TLC

VARIABLES
    stack,            \* Context.stack : Stack<Datum> = [data, capacity]
    dictionary,       \* Context.dictionary : Dictionary = [data, capacity]
    fsm,              \* Context.fsm : "Execute" | "GetVariable"
    mode,             \* Context.mode : "Interpreting" | "Compiling"
    overflow_checks,  \* build profile: TRUE panics on + - * overflow, FALSE wraps
    ret,              \* what the last call of the public interface returned
    calls             \* number of calls made on the object since construction

vars == <<stack, dictionary, fsm, mode, overflow_checks, ret, calls>>

----------------------------------------------------------------------------
(* Bounds of the exploration. *)

MaxCalls == 3
MaxStackCapacity == 3
MaxUserSlots == 2
MaxDictCapacity == 3

----------------------------------------------------------------------------
(* id.rs *)

ID_SIZE == 16

\* char::default(), the padding of an identifier
NUL == "\\0"

\* fn id(s: &str) -> Identifier: the first ID_SIZE chars, padded with NUL
id(s) == [i \in 1..ID_SIZE |-> IF i <= Len(s) THEN s[i] ELSE NUL]

\* impl From<&str> for Id
IdFrom(s) == id(s)

----------------------------------------------------------------------------
(* Option and the i32 / usize arithmetic of the build *)

None == <<>>
Some(x) == <<x>>

I32_MAX == 2147483647
I32_MIN == -I32_MAX - 1

\* `x as usize` for x : i32.  A negative x sign-extends to 2^N + x, which is
\* above every length this model can hold; the record keeps x to name it.
AsUsize(x) == [wrapped |-> x < 0, n |-> x]

\* `u < len` for a usize u produced by AsUsize and a length len
UsizeLt(u, len) == ~u.wrapped /\ u.n < len

\* `addr as Datum` for addr : usize (a length, so non-negative here)
AsDatum(addr) == IF addr <= I32_MAX THEN addr ELSE (addr - I32_MAX - 1) + I32_MIN

\* a quotient rounded towards minus infinity, which i32 `/` is not
FloorDiv(a, b) == a \div b

\* Rust `/` on i32 truncates toward zero (b # 0, and not I32_MIN / -1);
\* \div rounds down, so an inexact quotient of opposite signs is one too low
TruncDiv(a, b) ==
    IF b = I32_MIN THEN (IF a = I32_MIN THEN 1 ELSE 0)
    ELSE LET q == a \div b
             exact == (a % (IF b < 0 THEN -b ELSE b)) = 0
         IN IF ~exact /\ ((a < 0) # (b < 0)) THEN q + 1 ELSE q

AddOverflows(a, b) == (b > 0 /\ a > I32_MAX - b) \/ (b < 0 /\ a < I32_MIN - b)

\* two's complement a + b
WrappingAdd(a, b) ==
    IF b > 0 /\ a > I32_MAX - b THEN ((a - I32_MAX) - 1) + ((b - I32_MAX) - 1)
    ELSE IF b < 0 /\ a < I32_MIN - b THEN ((a + I32_MAX) + 1) + ((b + I32_MAX) + 1)
    ELSE a + b

SubOverflows(a, b) == (b < 0 /\ a > I32_MAX + b) \/ (b > 0 /\ a < I32_MIN + b)

\* two's complement a - b
WrappingSub(a, b) ==
    IF b < 0 /\ a > I32_MAX + b THEN ((a - I32_MAX) - 1) - ((b + I32_MAX) + 1)
    ELSE IF b > 0 /\ a < I32_MIN + b THEN ((a + I32_MAX) + 1) - ((b - I32_MAX) - 1)
    ELSE a - b

\* the low and the high 16 bits of the two's complement of x, unsigned
Lo16(x) == x % 65536
Hi16(x) == ((x - Lo16(x)) \div 65536) % 65536

\* x * 2^8 and x * 2^16 modulo 2^32, as an i32
Shl8(x) ==
    IF x % 16777216 >= 8388608 THEN ((x % 16777216) - 16777216) * 256
    ELSE (x % 16777216) * 256
Shl16(x) ==
    IF x % 65536 >= 32768 THEN ((x % 65536) - 65536) * 65536
    ELSE (x % 65536) * 65536

\* x * y modulo 2^32 for 16-bit unsigned x and y, as an i32
Mul16(x, y) == WrappingAdd(x * (y % 256), Shl8(x * (y \div 256)))

\* two's complement a * b: the low 32 bits of the product of the halves
WrappingMul(a, b) ==
    WrappingAdd(Mul16(Lo16(a), Lo16(b)),
                Shl16(WrappingAdd(Mul16(Hi16(a), Lo16(b)),
                                  Mul16(Lo16(a), Hi16(b)))))

MulOverflows(a, b) ==
    IF a = 0 \/ b = 0 THEN FALSE
    ELSE IF (a = -1 /\ b = I32_MIN) \/ (b = -1 /\ a = I32_MIN) THEN TRUE
    ELSE IF a = -1 \/ b = -1 THEN FALSE
    ELSE TruncDiv(WrappingMul(a, b), a) # b


----------------------------------------------------------------------------
(* stack.rs : Stack<Data> = [data : Seq(Data), capacity : Nat].             *)
(* data[1] is the bottom (index 0 of the Vec), data[Len(data)] the top.     *)

\* Stack::new
StackNew(capacity) == [data |-> <<>>, capacity |-> capacity]

\* Stack::push -> Result<(), StackErr>
StackPush(s, data) ==
    IF Len(s.data) < s.capacity
    THEN [stack |-> [s EXCEPT !.data = Append(s.data, data)], err |-> ""]
    ELSE [stack |-> s, err |-> "Overflow"]

\* a pop from the other end: first in, first out
StackPopFront(s) ==
    IF Len(s.data) > 0
    THEN [stack |-> [s EXCEPT !.data = SubSeq(s.data, 2, Len(s.data))],
          val |-> s.data[1], err |-> ""]
    ELSE [stack |-> s, val |-> 0, err |-> "Underflow"]

\* Stack::pop -> Result<Data, StackErr>; val is meaningful when err = ""
StackPop(s) ==
    IF Len(s.data) > 0
    THEN [stack |-> [s EXCEPT !.data = SubSeq(s.data, 1, Len(s.data) - 1)],
          val |-> s.data[Len(s.data)], err |-> ""]
    ELSE [stack |-> s, val |-> 0, err |-> "Underflow"]

\* Stack::clear
StackClear(s) == [s EXCEPT !.data = <<>>]

----------------------------------------------------------------------------
(* dictionary.rs : Dictionary<Key, Value> = [data, capacity]; data is the   *)
(* Vec of entries [key : Option<Key>, value : Value]; the entry at address  *)
(* a (0-based) is data[a + 1].                                              *)

\* Dictionary::new
DictNew(capacity) == [data |-> <<>>, capacity |-> capacity]

\* Vec::swap_remove(i): the last element takes the place of the i-th
VecSwapRemove(v, i) ==
    IF i + 1 = Len(v) THEN SubSeq(v, 1, i)
    ELSE SubSeq(v, 1, i) \o <<v[Len(v)]>> \o SubSeq(v, i + 2, Len(v) - 1)

\* Vec::remove(i) for a 0-based i
VecRemove(v, i) == SubSeq(v, 1, i) \o SubSeq(v, i + 2, Len(v))

RECURSIVE FirstIndex(_, _, _)
\* the 0-based index of the first entry at or after i that carries `key`,
\* Len(data) when there is none: the scans of insert, get_addr and get
FirstIndex(data, key, i) ==
    IF i >= Len(data) THEN Len(data)
    ELSE IF data[i + 1].key = Some(key) THEN i
    ELSE FirstIndex(data, key, i + 1)

\* `self.data.remove(i); break;` when the scan found the key at i
RemoveAt(data, i) == IF i < Len(data) THEN VecRemove(data, i) ELSE data

\* an insert that leaves an entry with the same key where it is
RemoveNone(data, key) == data

\* the `while` of insert: remove the first entry with the same key
RemoveFirst(data, key) ==
    IF key = None THEN data ELSE RemoveAt(data, FirstIndex(data, key[1], 0))

\* a tail of insert that tests the length the dictionary had on entry
PushEntryIfRoomBefore(d, data, key, value) ==
    IF Len(d.data) = d.capacity
    THEN [dict |-> [d EXCEPT !.data = data], addr |-> 0, err |-> "Overflow"]
    ELSE [dict |-> [d EXCEPT !.data = Append(data, [key |-> key, value |-> value])],
          addr |-> Len(data), err |-> ""]

\* the tail of insert, `data` being the entries after the removal
PushEntry(d, data, key, value) ==
    IF Len(data) = d.capacity
    THEN [dict |-> [d EXCEPT !.data = data], addr |-> 0, err |-> "Overflow"]
    ELSE [dict |-> [d EXCEPT !.data = Append(data, [key |-> key, value |-> value])],
          addr |-> Len(data), err |-> ""]

\* Dictionary::insert -> Result<Addr, DictionaryErr>.  The removal is kept
\* when the insert then overflows.
DictInsert(d, key, value) == PushEntry(d, RemoveFirst(d.data, key), key, value)

\* `return Some(i)` / `None` of get_addr, i being where the scan stopped
AddrFound(data, i) == IF i < Len(data) THEN Some(i) ELSE None

\* Dictionary::get_addr -> Option<usize>
DictGetAddr(d, key) == AddrFound(d.data, FirstIndex(d.data, key, 0))

\* Dictionary::set_from_addr(addr: usize, value) -> Result<(), DictionaryErr>
DictSetFromAddr(d, addr, value) ==
    IF UsizeLt(addr, Len(d.data))
    THEN [dict |-> [d EXCEPT !.data[addr.n + 1].value = value], err |-> ""]
    ELSE [dict |-> d, err |-> "UndefinedAccess"]

\* Dictionary::get_from_addr(addr: usize) -> Option<&(Option<Key>, Value)>
DictGetFromAddr(d, addr) ==
    IF UsizeLt(addr, Len(d.data)) THEN Some(d.data[addr.n + 1]) ELSE None

\* `return Some(value)` / `None` of get, i being where the scan stopped
ValueFound(data, i) == IF i < Len(data) THEN Some(data[i + 1].value) ELSE None

\* Dictionary::get -> Option<&Value>
DictGet(d, key) == ValueFound(d.data, FirstIndex(d.data, key, 0))

\* Dictionary::clear
DictClear(d) == [d EXCEPT !.data = <<>>]

----------------------------------------------------------------------------
(* context.rs : words, errors and the engine state.                         *)
(* A Context is the record [stack, dictionary, fsm, mode].                  *)

\* enum Word.  Builtin(p) stands for the closure registered under the name
\* p by set_primitives; no code constructs Word::Custom.
Builtin(p) == [tag |-> "Builtin", proc |-> p, d |-> 0]
Data(i) == [tag |-> "Data", proc |-> <<>>, d |-> i]

\* ContextErr and its From conversions; "panic" is an unwinding abort
\* (todo!, unwrap on Err, arithmetic overflow), not a value of the enum
StackErr(e) == "StackErr(" \o e \o ")"
DictionaryErr(e) == "DictionaryErr(" \o e \o ")"
ParseErr(e) == "Parse(" \o e \o ")"
Panic == "panic"

NoAddr == AsUsize(0)

\* the outcome of a step on a context: err = "" is Ok(()); `at` is the
\* payload of AccessedUndefinedAtAddr
Done(c) == [ctx |-> c, err |-> "", at |-> NoAddr]
Fail(c, e) == [ctx |-> c, err |-> e, at |-> NoAddr]

\* the result p of Stack::pop as a step on the context c
Popped(c, p) ==
    [ctx |-> [c EXCEPT !.stack = p.stack], val |-> p.val,
     err |-> IF p.err = "" THEN "" ELSE StackErr(p.err)]

\* `context.stack.pop()?`
CtxPop(c) == Popped(c, StackPop(c.stack))

\* the result p of Stack::push as a step on the context c
Pushed(c, p) ==
    IF p.err = "" THEN Done([c EXCEPT !.stack = p.stack])
    ELSE Fail(c, StackErr(p.err))

\* `context.stack.push(v)?; Ok(())`
CtxPush(c, v) == Pushed(c, StackPush(c.stack, v))

\* both operands popped
Popped2(p1, p2) == [ctx |-> p2.ctx, n1 |-> p1.val, n2 |-> p2.val, err |-> p2.err]

\* `let n2 = context.stack.pop()?;` after n1 was popped (p1)
PopNext(p1) ==
    IF p1.err # "" THEN [ctx |-> p1.ctx, n1 |-> 0, n2 |-> 0, err |-> p1.err]
    ELSE Popped2(p1, CtxPop(p1.ctx))

\* `let n1 = context.stack.pop()?; let n2 = context.stack.pop()?;`
CtxPop2(c) == PopNext(CtxPop(c))

\* the names set_primitives registers, in its order
TokDoes == <<"d", "o", "e", "s", ">">>
TokCreate == <<"c", "r", "e", "a", "t", "e">>
TokDrop == <<"d", "r", "o", "p">>
TokPrint == <<"p", "r", "i", "n", "t">>
TokStore == <<"!">>
TokDict == <<"d", "i", "c", "t">>
TokFetch == <<"@">>
TokSub == <<"-">>
TokAdd == <<"+">>
TokMul == <<"*">>
TokDiv == <<"/">>
TokDup == <<"d", "u", "p">>

Primitives ==
    <<TokDoes, TokCreate, TokDrop, TokPrint, TokStore, TokDict, TokFetch,
      TokSub, TokAdd, TokMul, TokDiv, TokDup>>

\* "drop" after its pop
Dropped(p) == IF p.err # "" THEN Fail(p.ctx, p.err) ELSE Done(p.ctx)

\* the closure of "drop"
PrimDrop(c) == Dropped(CtxPop(c))

\* "print" after its pop (the line it writes to stdout is not modelled)
Printed(p) == IF p.err # "" THEN Fail(p.ctx, p.err) ELSE CtxPush(p.ctx, p.val)

\* the closure of "print"
PrimPrint(c) == Printed(CtxPop(c))

\* `context.dictionary.set_from_addr(..)?; Ok(())`, w being its result
Stored(c, w) ==
    IF w.err # "" THEN Fail(c, DictionaryErr(w.err))
    ELSE Done([c EXCEPT !.dictionary = w.dict])

\* "!" taking the top as the value and the next as the address
StoreOperandsSwapped(p) ==
    IF p.err # "" THEN Fail(p.ctx, p.err)
    ELSE Stored(p.ctx, DictSetFromAddr(p.ctx.dictionary, AsUsize(p.n2), Data(p.n1)))

\* "!" after its pops: n1 is addr, n2 is x
StoreOperands(p) ==
    IF p.err # "" THEN Fail(p.ctx, p.err)
    ELSE Stored(p.ctx, DictSetFromAddr(p.ctx.dictionary, AsUsize(p.n1), Data(p.n2)))

\* the closure of "!"
PrimStore(c) == StoreOperands(CtxPop2(c))

\* the closure of "dict" (it only writes to stdout)
PrimDict(c) == Done(c)

\* `if !found { todo!() }`, else the push of the address found
PushOwnAddr(c, addr) ==
    IF addr = None THEN Fail(c, Panic) ELSE CtxPush(c, AsDatum(addr[1]))

\* the `_` arm of "@": the slot holds a word that is not Data
FetchOwnAddr(c, key) ==
    PushOwnAddr(c, IF key = None THEN None ELSE DictGetAddr(c.dictionary, key[1]))

\* "@" pushing the address of a slot that holds data, not the data
FetchSlotPushesAddr(c, a_addr, e) ==
    IF e = None THEN [ctx |-> c, err |-> "AccessedUndefinedAtAddr", at |-> a_addr]
    ELSE IF e[1].value.tag = "Data" THEN CtxPush(c, a_addr.n)
    ELSE FetchOwnAddr(c, e[1].key)

\* `match context.dictionary.get_from_addr(a_addr)`, e being its result
FetchSlot(c, a_addr, e) ==
    IF e = None THEN [ctx |-> c, err |-> "AccessedUndefinedAtAddr", at |-> a_addr]
    ELSE IF e[1].value.tag = "Data" THEN CtxPush(c, e[1].value.d)
    ELSE FetchOwnAddr(c, e[1].key)

\* "@" after its pop
FetchAddr(p) ==
    IF p.err # "" THEN Fail(p.ctx, p.err)
    ELSE FetchSlot(p.ctx, AsUsize(p.val),
                   DictGetFromAddr(p.ctx.dictionary, AsUsize(p.val)))

\* the closure of "@"
PrimFetch(c) == FetchAddr(CtxPop(c))

\* n1 - n2, n1 + n2, n1 * n2 on i32: with overflow checks an overflow
\* panics, without them the result wraps
Arith(c, overflows, wrapped, oc) ==
    IF overflows /\ oc THEN Fail(c, Panic) ELSE CtxPush(c, wrapped)

\* a "-" with its operands exchanged: n2 - n1
SubOperandsSwapped(p, oc) ==
    IF p.err # "" THEN Fail(p.ctx, p.err)
    ELSE Arith(p.ctx, SubOverflows(p.n2, p.n1), WrappingSub(p.n2, p.n1), oc)

\* "-" after its pops: push n1 - n2
SubOperands(p, oc) ==
    IF p.err # "" THEN Fail(p.ctx, p.err)
    ELSE Arith(p.ctx, SubOverflows(p.n1, p.n2), WrappingSub(p.n1, p.n2), oc)

\* the closure of "-"
PrimSub(c, oc) == SubOperands(CtxPop2(c), oc)

\* "+" after its pops: push n1 + n2
AddOperands(p, oc) ==
    IF p.err # "" THEN Fail(p.ctx, p.err)
    ELSE Arith(p.ctx, AddOverflows(p.n1, p.n2), WrappingAdd(p.n1, p.n2), oc)

\* the closure of "+"
PrimAdd(c, oc) == AddOperands(CtxPop2(c), oc)

\* "*" after its pops: push n1 * n2
MulOperands(p, oc) ==
    IF p.err # "" THEN Fail(p.ctx, p.err)
    ELSE Arith(p.ctx, MulOverflows(p.n1, p.n2), WrappingMul(p.n1, p.n2), oc)

\* the closure of "*"
PrimMul(c, oc) == MulOperands(CtxPop2(c), oc)

\* "/" after its pops; I32_MIN / -1 panics in every build
DivOperands(p) ==
    IF p.err # "" THEN Fail(p.ctx, p.err)
    ELSE IF p.n2 = 0 THEN Fail(p.ctx, "DivideByZero")
    ELSE IF p.n1 = I32_MIN /\ p.n2 = -1 THEN Fail(p.ctx, Panic)
    ELSE CtxPush(p.ctx, TruncDiv(p.n1, p.n2))

\* a "/" that tests the divisor where it lies and pops nothing on zero
PrimDivKeepsOperands(c) ==
    IF Len(c.stack.data) >= 2 /\ c.stack.data[Len(c.stack.data) - 1] = 0
    THEN Fail(c, "DivideByZero")
    ELSE DivOperands(CtxPop2(c))

\* the closure of "/"
PrimDiv(c) == DivOperands(CtxPop2(c))

\* "dup" after its first push (q)
DupPushed(q, n) == IF q.err # "" THEN q ELSE CtxPush(q.ctx, n)

\* "dup" after its pop
DupPopped(p) ==
    IF p.err # "" THEN Fail(p.ctx, p.err)
    ELSE DupPushed(CtxPush(p.ctx, p.val), p.val)

\* the closure of "dup"
PrimDup(c) == DupPopped(CtxPop(c))

\* `built_in(self)` for the closure registered under the name p
CallBuiltin(p, c, oc) ==
    CASE p = TokDoes -> Fail(c, Panic)
      [] p = TokCreate -> Fail(c, Panic)
      [] p = TokDrop -> PrimDrop(c)
      [] p = TokPrint -> PrimPrint(c)
      [] p = TokStore -> PrimStore(c)
      [] p = TokDict -> PrimDict(c)
      [] p = TokFetch -> PrimFetch(c)
      [] p = TokSub -> PrimSub(c, oc)
      [] p = TokAdd -> PrimAdd(c, oc)
      [] p = TokMul -> PrimMul(c, oc)
      [] p = TokDiv -> PrimDiv(c)
      [] p = TokDup -> PrimDup(c)

RECURSIVE set_primitives_from(_, _)
RECURSIVE Registered(_, _, _)
\* builtin_word!: the `?` on the insert of the i-th word, r being its result
Registered(c, i, r) ==
    IF r.err # "" THEN Fail([c EXCEPT !.dictionary = r.dict], DictionaryErr(r.err))
    ELSE set_primitives_from([c EXCEPT !.dictionary = r.dict], i + 1)

\* Context::set_primitives from the i-th builtin_word! on
set_primitives_from(c, i) ==
    IF i > Len(Primitives) THEN Done(c)
    ELSE Registered(c, i, DictInsert(c.dictionary, Some(IdFrom(Primitives[i])),
                                     Builtin(Primitives[i])))

\* Context::set_primitives
set_primitives(c) == set_primitives_from(c, 1)

\* `.unwrap()`: a panic on Err
Unwrap(r) == IF r.err # "" THEN Fail(r.ctx, Panic) ELSE r

\* a reset that leaves the FSM state as it is
resetKeepsFsm(c) ==
    Unwrap(set_primitives([c EXCEPT !.dictionary = DictClear(c.dictionary),
                                    !.stack = StackClear(c.stack),
                                    !.mode = "Interpreting"]))

\* Context::reset
reset(c) ==
    Unwrap(set_primitives([c EXCEPT !.fsm = "Execute",
                                    !.dictionary = DictClear(c.dictionary),
                                    !.stack = StackClear(c.stack),
                                    !.mode = "Interpreting"]))

\* Context::new
new(stack_capacity, dictionary_capacity) ==
    reset([fsm |-> "Execute",
           stack |-> StackNew(stack_capacity),
           mode |-> "Interpreting",
           dictionary |-> DictNew(dictionary_capacity)])

----------------------------------------------------------------------------
(* str::split_whitespace and str::parse::<i32> *)

Space == " "

\* where the tokens of line start: a non-blank at the start of the line
\* or after a blank
TokenStarts(line) ==
    {i \in 1..Len(line) : line[i] # Space /\ (i = 1 \/ line[i - 1] = Space)}

\* where the token that starts at i ends: before the next blank or the end
TokenEnd(line, i) ==
    CHOOSE j \in i..Len(line) :
        /\ \A k \in i..j : line[k] # Space
        /\ j = Len(line) \/ line[j + 1] = Space

\* where the n-th token of line starts
NthStart(line, n) ==
    CHOOSE i \in TokenStarts(line) :
        Cardinality({j \in TokenStarts(line) : j < i}) = n - 1

\* the n-th token of line
NthToken(line, n) ==
    SubSeq(line, NthStart(line, n), TokenEnd(line, NthStart(line, n)))

\* line.split_whitespace(): the maximal runs of non-blank characters
SplitWhitespace(line) ==
    [n \in 1..Cardinality(TokenStarts(line)) |-> NthToken(line, n)]

Digits == <<"0", "1", "2", "3", "4", "5", "6", "7", "8", "9">>

IsDigit(ch) == \E k \in 1..10 : Digits[k] = ch

\* char::to_digit(10) of a decimal digit
ToDigit(ch) == (CHOOSE k \in 1..10 : Digits[k] = ch) - 1

RECURSIVE ParseDigits(_, _, _, _)
\* the digit loop of i32::from_str: checked_mul(10), then checked_add for a
\* positive literal and checked_sub for a negative one
ParseDigits(s, i, positive, acc) ==
    IF i > Len(s) THEN [val |-> acc, err |-> ""]
    ELSE IF ~IsDigit(s[i]) THEN [val |-> 0, err |-> "InvalidDigit"]
    ELSE LET x == ToDigit(s[i])
         IN IF positive
            THEN IF acc > I32_MAX \div 10 \/ acc * 10 > I32_MAX - x
                 THEN [val |-> 0, err |-> "PosOverflow"]
                 ELSE ParseDigits(s, i + 1, positive, acc * 10 + x)
            ELSE IF acc < -(I32_MAX \div 10) \/ acc * 10 < I32_MIN + x
                 THEN [val |-> 0, err |-> "NegOverflow"]
                 ELSE ParseDigits(s, i + 1, positive, acc * 10 - x)

\* word.parse::<i32>() -> Result<i32, ParseIntError>
ParseI32(s) ==
    IF s = <<>> THEN [val |-> 0, err |-> "Empty"]
    ELSE IF (s[1] = "+" \/ s[1] = "-") /\ Len(s) = 1
         THEN [val |-> 0, err |-> "InvalidDigit"]
    ELSE IF s[1] = "+" THEN ParseDigits(s, 2, TRUE, 0)
    ELSE IF s[1] = "-" THEN ParseDigits(s, 2, FALSE, 0)
    ELSE ParseDigits(s, 1, TRUE, 0)

----------------------------------------------------------------------------
(* Context::eval and its helpers *)

TokBye == <<"b", "y", "e">>
TokYield == <<"y", "i", "e", "l", "d">>
TokVar == <<"v", "a", "r">>

\* Context::find_word -> Option<Rc<Word>>
find_word(c, word) == DictGet(c.dictionary, IdFrom(word))

\* `Ok(word.parse::<Datum>()?)`, r being the result of the parse
Parsed(r) == [val |-> r.val, err |-> IF r.err = "" THEN "" ELSE ParseErr(r.err)]

\* Context::convert_to_number -> Result<Datum, ContextErr>
convert_to_number(word) == Parsed(ParseI32(word))

\* Context::run_word
run_word(c, word, oc) ==
    IF word.tag = "Builtin" THEN CallBuiltin(word.proc, c, oc)
    ELSE IF word.tag = "Data" THEN CtxPush(c, word.d)
    ELSE Fail(c, Panic)

\* the None arm of the lookup: `Rc::new(Word::Data(i))`, or the Err of `?`
Numeral(i) == [word |-> Data(i.val), err |-> i.err]

\* a lookup that tries the numeral first and the dictionary on a parse error
ResolvedNumeralFirst(word_str, found) ==
    IF convert_to_number(word_str).err = "" THEN Numeral(convert_to_number(word_str))
    ELSE IF found # None THEN [word |-> found[1], err |-> ""]
    ELSE Numeral(convert_to_number(word_str))

\* `match self.find_word(word_str)`: the dictionary first, the numeral only
\* when the name is absent
Resolved(word_str, found) ==
    IF found # None THEN [word |-> found[1], err |-> ""]
    ELSE Numeral(convert_to_number(word_str))

\* `match self.mode` on the resolved word r
RunResolved(c, r, oc) ==
    IF r.err # "" THEN Fail(c, r.err)
    ELSE IF c.mode = "Interpreting" THEN run_word(c, r.word, oc)
    ELSE Fail(c, Panic)

\* the Fsm::Execute arm of eval for a token other than bye, yield and var
ExecuteWord(c, word_str, oc) ==
    RunResolved(c, Resolved(word_str, find_word(c, word_str)), oc)

\* a declaration that leaves the FSM waiting for a name
DeclaredStaysWaiting(c, n) ==
    IF n.err # "" THEN Fail([c EXCEPT !.dictionary = n.dict], DictionaryErr(n.err))
    ELSE Done([c EXCEPT !.dictionary = n.dict])

\* the second insert of Fsm::GetVariable and the switch back, n being the
\* result of the insert
Declared(c, n) ==
    IF n.err # "" THEN Fail([c EXCEPT !.dictionary = n.dict], DictionaryErr(n.err))
    ELSE Done([c EXCEPT !.dictionary = n.dict, !.fsm = "Execute"])

\* Fsm::GetVariable after the insert of the anonymous slot (a)
NameSlot(c, word_str, a) ==
    IF a.err # "" THEN Fail([c EXCEPT !.dictionary = a.dict], DictionaryErr(a.err))
    ELSE Declared(c, DictInsert(a.dict, Some(IdFrom(word_str)),
                                Data(AsDatum(a.addr))))

\* the Fsm::GetVariable arm of eval
GetVariable(c, word_str) ==
    NameSlot(c, word_str, DictInsert(c.dictionary, None, Data(0)))

\* the value eval returns: status is "Ok", "Shutdown" or "Yielding" for
\* Ok(Return::..), an error of ContextErr, or Panic
Returned(c, status, at) == [ctx |-> c, status |-> status, at |-> at]

\* one token in the state Fsm::Execute, bye and yield apart
ExecuteToken(c, word_str, oc) ==
    IF word_str = TokVar THEN Done([c EXCEPT !.fsm = "GetVariable"])
    ELSE ExecuteWord(c, word_str, oc)

RECURSIVE EvalTokens(_, _, _, _)
RECURSIVE NextToken(_, _, _, _)
\* the `?` of the i-th token, r being its outcome, and the rest of the loop
NextToken(r, tokens, i, oc) ==
    IF r.err # "" THEN Returned(r.ctx, r.err, r.at)
    ELSE EvalTokens(r.ctx, tokens, i + 1, oc)

\* a loop that takes `bye` for a word without effect and goes on
EvalTokensPastBye(c, tokens, i, oc) ==
    IF i > Len(tokens) THEN Returned(c, "Ok", NoAddr)
    ELSE IF c.fsm = "Execute" /\ tokens[i] = TokBye
         THEN EvalTokens(c, tokens, i + 1, oc)
    ELSE IF c.fsm = "Execute" /\ tokens[i] = TokYield
         THEN Returned(c, Panic, NoAddr)
    ELSE NextToken(IF c.fsm = "Execute" THEN ExecuteToken(c, tokens[i], oc)
                   ELSE GetVariable(c, tokens[i]),
                   tokens, i, oc)

\* the `for word_str in line.split_whitespace()` loop of eval from the
\* i-th token on
EvalTokens(c, tokens, i, oc) ==
    IF i > Len(tokens) THEN Returned(c, "Ok", NoAddr)
    ELSE IF c.fsm = "Execute" /\ tokens[i] = TokBye
         THEN Returned(c, "Shutdown", NoAddr)
    ELSE IF c.fsm = "Execute" /\ tokens[i] = TokYield
         THEN Returned(c, Panic, NoAddr)
    ELSE NextToken(IF c.fsm = "Execute" THEN ExecuteToken(c, tokens[i], oc)
                   ELSE GetVariable(c, tokens[i]),
                   tokens, i, oc)

\* an eval that starts every line in the state Execute
evalFromExecute(c, line, oc) ==
    EvalTokens([c EXCEPT !.fsm = "Execute"], SplitWhitespace(line), 1, oc)

\* Context::eval
eval(c, line, oc) == EvalTokens(c, SplitWhitespace(line), 1, oc)

----------------------------------------------------------------------------
(* The inputs of the exploration *)

TokVariable == <<"v", "a", "r", "i", "a", "b", "l", "e">>
TokBalance == <<"b", "a", "l", "a", "n", "c", "e">>
TokDUP == <<"D", "U", "P">>
TokMax == <<"2", "1", "4", "7", "4", "8", "3", "6", "4", "7">>
TokMin == <<"-">> \o <<"2", "1", "4", "7", "4", "8", "3", "6", "4", "8">>

\* the numerals of the tests of context.rs
Tok0 == <<"0">>
Tok1 == <<"1">>
Tok2 == <<"2">>
Tok3 == <<"3">>
Tok4 == <<"4">>
Tok7 == <<"7">>
TokM9 == <<"-", "9">>
TokM1 == <<"-", "1">>
Tok12 == <<"1", "2">>
Tok123 == <<"1", "2", "3">>

Numerals == {Tok0, Tok1, Tok2, TokM1, Tok12, TokMax, TokMin}

Tokens ==
    {Primitives[i] : i \in 1..Len(Primitives)}
        \cup {TokBye, TokYield, TokVar, TokBalance, TokDUP}
        \cup Numerals

RECURSIVE Join(_)
\* the tokens written on one line, a blank between neighbours
Join(ts) ==
    IF ts = <<>> THEN <<>>
    ELSE IF Len(ts) = 1 THEN ts[1]
    ELSE ts[1] \o <<Space>> \o Join(Tail(ts))

\* the lines of the tests of context.rs
TestLines ==
    { Join(<<Tok4, Tok7, TokDiv>>), Join(<<Tok3, TokM9, TokDiv>>),
      Join(<<Tok0, TokM9, TokDiv>>), Join(<<Tok4, Tok7, TokMul>>),
      Join(<<TokM9, TokMul>>), Join(<<Tok1, Tok2, TokSub>>),
      Join(<<TokM9, TokSub>>), Join(<<Tok1, Tok2, TokAdd>>),
      Join(<<Tok1, TokAdd>>), Join(<<Tok1, TokDUP>>),
      Join(<<TokVariable, TokBalance, Tok123, TokBalance, TokStore,
             TokBalance, TokFetch>>),
      Join(<<TokVar, TokBalance, Tok123, TokBalance, TokStore,
             TokBalance, TokFetch>>) }

\* lines that go on after a token that ends the evaluation
TailLines ==
    { Join(<<TokDiv, Tok1>>), Join(<<Tok0, TokM9, TokDiv, Tok1>>),
      Join(<<TokBye, Tok1>>), Join(<<TokDUP, Tok1>>),
      Join(<<Tok1, TokBye, Tok1>>) }

\* the lines eval() is called with: the empty line, every token alone,
\* and the lines above
Lines == {<<>>} \cup {Join(<<t>>) : t \in Tokens} \cup TestLines \cup TailLines

\* the operands push() is called with
PushValues == {0, 1}

NumBuiltins == Len(Primitives)

StackCapacities == {MaxStackCapacity}

DictCapacities ==
    {NumBuiltins - 1} \cup {NumBuiltins + k : k \in 1..MaxUserSlots}

----------------------------------------------------------------------------
(* The engine as a state machine: one action per method of Context *)

Ctx == [stack |-> stack, dictionary |-> dictionary, fsm |-> fsm, mode |-> mode]

\* the variables take the fields of the context c
Becomes(c) ==
    /\ stack' = c.stack
    /\ dictionary' = c.dictionary
    /\ fsm' = c.fsm
    /\ mode' = c.mode

Ret(op, status, val, at) == [op |-> op, status |-> status, val |-> val, at |-> at]

\* the process is alive and the budget of calls is not spent
Callable == ret.status # Panic /\ calls < MaxCalls

\* the context and the result of Context::new
Constructed(r, oc) ==
    /\ stack = r.ctx.stack
    /\ dictionary = r.ctx.dictionary
    /\ fsm = r.ctx.fsm
    /\ mode = r.ctx.mode
    /\ overflow_checks = oc
    /\ ret = Ret("new", IF r.err = "" THEN "Ok" ELSE r.err, 0, NoAddr)
    /\ calls = 0

Init ==
    \E sc \in StackCapacities, dc \in DictCapacities, oc \in BOOLEAN :
        Constructed(new(sc, dc), oc)

\* f.eval(line)
Evaluated(r) == Becomes(r.ctx) /\ ret' = Ret("eval", r.status, 0, r.at)

Eval(line) ==
    /\ Callable
    /\ Evaluated(eval(Ctx, line, overflow_checks))
    /\ calls' = calls + 1
    /\ UNCHANGED overflow_checks

\* f.push(data)
Push(data) ==
    /\ Callable
    /\ LET r == StackPush(stack, data)
       IN /\ stack' = r.stack
          /\ ret' = Ret("push", IF r.err = "" THEN "Ok" ELSE r.err, 0, NoAddr)
    /\ calls' = calls + 1
    /\ UNCHANGED <<dictionary, fsm, mode, overflow_checks>>

\* f.pop()
Pop ==
    /\ Callable
    /\ LET r == StackPop(stack)
       IN /\ stack' = r.stack
          /\ ret' = Ret("pop", IF r.err = "" THEN "Ok" ELSE r.err, r.val, NoAddr)
    /\ calls' = calls + 1
    /\ UNCHANGED <<dictionary, fsm, mode, overflow_checks>>

WasReset(r) ==
    /\ Becomes(r.ctx)
    /\ ret' = Ret("reset", IF r.err = "" THEN "Ok" ELSE r.err, 0, NoAddr)

\* f.reset()
Reset ==
    /\ Callable
    /\ WasReset(reset(Ctx))
    /\ calls' = calls + 1
    /\ UNCHANGED overflow_checks

Next ==
    \/ \E line \in Lines : Eval(line)
    \/ \E data \in PushValues : Push(data)
    \/ Pop
    \/ Reset

Spec == Init /\ [][Next]_vars

----------------------------------------------------------------------------
(* Vocabulary of the properties *)

\* the engine is as Context::new left it and no call was made on it
Fresh == ret.op = "new" /\ ret.status = "Ok"

Depth == Len(stack.data)

\* the top of the stack and the value under it
Top == stack.data[Depth]
Under == stack.data[Depth - 1]

\* the stack below its two topmost values
BelowTwo == SubSeq(stack.data, 1, Depth - 2)

\* a value of the 32-bit operand type
IsI32(x) == I32_MIN <= x /\ x <= I32_MAX

\* |x| as a non-positive number, which every i32 has
NegAbs(x) == IF x > 0 THEN -x ELSE x

\* the quotient n / m rounded toward zero, for m # 0 and a quotient that is
\* an i32: its size is the whole part of |n| / |m|, its sign that of n * m
Quotient(n, m) ==
    IF m = 1 THEN n
    ELSE IF m = -1 THEN -n
    ELSE IF (n < 0) = (m < 0) THEN NegAbs(n) \div NegAbs(m)
    ELSE -(NegAbs(n) \div NegAbs(m))

BinaryOps == {TokAdd, TokSub, TokMul, TokDiv}

\* n1 op n2 is defined and is a value of the operand type
HasResult(op, n1, n2) ==
    CASE op = TokAdd -> ~AddOverflows(n1, n2)
      [] op = TokSub -> ~SubOverflows(n1, n2)
      [] op = TokMul -> ~MulOverflows(n1, n2)
      [] op = TokDiv -> n2 # 0 /\ ~(n1 = I32_MIN /\ n2 = -1)

\* n1 op n2, where HasResult
ResultOf(op, n1, n2) ==
    CASE op = TokAdd -> n1 + n2
      [] op = TokSub -> n1 - n2
      [] op = TokMul -> n1 * n2
      [] op = TokDiv -> Quotient(n1, n2)

\* the step pushed v in place of the two topmost values and returned Ok
ReplacedTwoBy(v) ==
    /\ ret'.status = "Ok"
    /\ stack'.data = Append(BelowTwo, v)
    /\ stack'.capacity = stack.capacity

\* the dictionary of a new engine: the built-in words at their addresses
BuiltinsOnly ==
    [i \in 1..Len(Primitives) |->
        [key |-> Some(IdFrom(Primitives[i])), value |-> Builtin(Primitives[i])]]

\* the first eval on a fresh engine returned Ok, declared nothing and left
\* data on the stack
AfterFirst(data) ==
    /\ ret.op = "eval" /\ ret.status = "Ok" /\ calls = 1
    /\ stack.data = data /\ fsm = "Execute" /\ dictionary.data = BuiltinsOnly

\* the step was eval(line) on a fresh engine, returned Ok and left `data`
FromFresh(line, data) ==
    (Fresh /\ Eval(line)) => (ret'.status = "Ok" /\ stack'.data = data)

----------------------------------------------------------------------------
(* C1 *)

VariableTestLine ==
    Join(<<TokVariable, TokBalance, Tok123, TokBalance, TokStore,
           TokBalance, TokFetch>>)

\* C1: on a freshly constructed engine the line
\* `variable balance 123 balance ! balance @` returns Ok and leaves 123 on
\* top of the stack, at stack()[0].
C1_VariableRoundTrip ==
    [][(Fresh /\ Eval(VariableTestLine))
         => (ret'.status = "Ok" /\ Depth' >= 1 /\ Top' = 123
             /\ stack'.data[1] = 123)]_vars

----------------------------------------------------------------------------
(* C2 *)

\* the examples of C2, as steps of the engine
C2_Examples ==
    /\ FromFresh(Join(<<Tok1, Tok2, TokSub>>), <<1>>)
    /\ (AfterFirst(<<1>>) /\ Eval(Join(<<TokM9, TokSub>>)))
         => (ret'.status = "Ok" /\ stack'.data = <<-10>>)
    /\ FromFresh(Join(<<Tok4, Tok7, TokDiv>>), <<1>>)
    /\ FromFresh(Join(<<Tok3, TokM9, TokDiv>>), <<-3>>)

\* the token op is evaluated as the built-in of that name
RunsBuiltin(op) ==
    fsm = "Execute" /\ DictGet(dictionary, IdFrom(op)) = Some(Builtin(op))

\* no sum, difference, product or quotient of n1 and n2 leaves the 32-bit
\* range (the operand pairs that do are the subject of C21)
InRange(op, n1, n2) ==
    CASE op = TokAdd -> ~AddOverflows(n1, n2)
      [] op = TokSub -> ~SubOverflows(n1, n2)
      [] op = TokMul -> ~MulOverflows(n1, n2)
      [] op = TokDiv -> ~(n1 = I32_MIN /\ n2 = -1)

\* C2 as stated: on every stack of at least two values each of + - * /
\* replaces the top n1 and the next n2 by n1 op n2, leaving the rest and a
\* stack one shorter (operand pairs within the 32-bit range).
C2_BinaryAlwaysPushes ==
    [][/\ \A op \in BinaryOps :
             (Depth >= 2 /\ RunsBuiltin(op) /\ InRange(op, Top, Under) /\ Eval(op))
               => (HasResult(op, Top, Under) /\ ReplacedTwoBy(ResultOf(op, Top, Under)))
       /\ C2_Examples]_vars

\* C2 amended: the same, whenever n1 op n2 is defined (for / the next
\* value n2 is not 0) and is a 32-bit signed value.
C2_BinaryPushesResult ==
    [][/\ \A op \in BinaryOps :
             (Depth >= 2 /\ RunsBuiltin(op) /\ HasResult(op, Top, Under) /\ Eval(op))
               => ReplacedTwoBy(ResultOf(op, Top, Under))
       /\ C2_Examples]_vars

\* `1 2 -` and then `-9 -` were evaluated
C2_Witness ==
    ret.op = "eval" /\ ret.status = "Ok" /\ stack.data = <<-10>> /\ calls = 2

----------------------------------------------------------------------------
(* C3 *)

\* C3 as stated: with a pushed first and b on top of it, b # 0, `/` pushes
\* the truncating quotient a / b.
C3_DivPushesFirstBySecond ==
    [][(Depth >= 2 /\ RunsBuiltin(TokDiv) /\ Top # 0
          /\ ~(Under = I32_MIN /\ Top = -1) /\ Eval(TokDiv))
         => ReplacedTwoBy(Quotient(Under, Top))]_vars

\* C3 amended: with a pushed first and b on top of it, a # 0, `/` pushes
\* the truncating quotient b / a, the top divided by the value under it
\* (b / a within the 32-bit range).
C3_DivPushesTopByNext ==
    [][(Depth >= 2 /\ RunsBuiltin(TokDiv) /\ Under # 0
          /\ ~(Top = I32_MIN /\ Under = -1) /\ Eval(TokDiv))
         => ReplacedTwoBy(Quotient(Top, Under))]_vars

\* `3 -9 /` was evaluated
C3_Witness == ret.op = "eval" /\ ret.status = "Ok" /\ stack.data = <<-3>>

----------------------------------------------------------------------------
(* C4 *)

\* lines that start with `/`, with and without tokens after it
DivLines == {TokDiv, Join(<<TokDiv, Tok1>>)}

\* the lines of the example, with and without a token after `/`
DivByZeroLines ==
    {Join(<<Tok0, TokM9, TokDiv>>), Join(<<Tok0, TokM9, TokDiv, Tok1>>)}

\* C4: `/` with 0 under the top returns DivideByZero with both operands
\* removed, nothing pushed, the values below and the dictionary unchanged,
\* and the rest of the line not processed; `0 -9 /` is such a line.
C4_DivideByZeroConsumesOperands ==
    [][/\ \A line \in DivLines :
             (Depth >= 2 /\ RunsBuiltin(TokDiv) /\ Under = 0 /\ Eval(line))
               => /\ ret'.status = "DivideByZero"
                  /\ stack'.data = BelowTwo
                  /\ dictionary' = dictionary
                  /\ fsm' = fsm /\ mode' = mode
       /\ \A line \in DivByZeroLines :
             (Fresh /\ Eval(line))
               => /\ ret'.status = "DivideByZero"
                  /\ stack'.data = <<>>
                  /\ dictionary' = dictionary]_vars

\* a `/` failed on a stack of three values and left the lowest one
C4_Witness ==
    ret.op = "eval" /\ ret.status = "DivideByZero" /\ Depth = 1 /\ calls = 3

----------------------------------------------------------------------------
(* C5 *)

\* pairs of lines L1, L2 given to eval one after the other
LinePairs ==
    { <<Join(<<Tok4, Tok7, TokMul>>), Join(<<TokM9, TokMul>>)>>,
      <<Join(<<Tok1, Tok2, TokAdd>>), Join(<<Tok1, TokAdd>>)>>,
      <<Join(<<Tok1, Tok2, TokSub>>), Join(<<TokM9, TokSub>>)>>,
      <<TokVar, TokBalance>>,
      <<Join(<<TokVar, TokBalance>>), Join(<<TokBalance, TokFetch>>)>>,
      <<Join(<<Tok1, Tok0>>), Join(<<TokStore, TokDoes>>)>>,
      <<Tok1, Join(<<TokDup, TokDUP, Tok1>>)>>,
      <<<<>>, TokDrop>> }

\* eval(L2) after eval(L1) returned r1, against r12 = eval(L1 L2)
SameAsJoined(r1, r2, r12) == r1.status = "Ok" => r2 = r12

\* eval(L1) then eval(L2) against eval of L1 and L2 joined by a blank
CarriesOver(c, L1, L2, oc) ==
    SameAsJoined(eval(c, L1, oc),
                 eval(eval(c, L1, oc).ctx, L2, oc),
                 eval(c, L1 \o <<Space>> \o L2, oc))

\* C5: when eval(L1) returns Ok, eval(L1) followed by eval(L2) leaves the
\* same stack, dictionary and FSM state and returns the same result as one
\* eval of L1 and L2 joined by a blank; `4 7 *` then `-9 *` leaves 28 and
\* then -252, `1 2 +` then `1 +` leaves 3 and then 4.
C5_StateCarriesOver ==
    [][/\ ret.status # Panic
            => \A p \in LinePairs : CarriesOver(Ctx, p[1], p[2], overflow_checks)
       /\ FromFresh(Join(<<Tok4, Tok7, TokMul>>), <<28>>)
       /\ (AfterFirst(<<28>>) /\ Eval(Join(<<TokM9, TokMul>>)))
            => (ret'.status = "Ok" /\ stack'.data = <<-252>>)
       /\ FromFresh(Join(<<Tok1, Tok2, TokAdd>>), <<3>>)
       /\ (AfterFirst(<<3>>) /\ Eval(Join(<<Tok1, TokAdd>>)))
            => (ret'.status = "Ok" /\ stack'.data = <<4>>)]_vars

\* `4 7 *` and then `-9 *` were evaluated, in two calls
C5_Witness ==
    ret.op = "eval" /\ ret.status = "Ok" /\ stack.data = <<-252>> /\ calls = 2

----------------------------------------------------------------------------
(* C6 *)

\* C6: on a fresh engine the line `1 DUP` returns Ok and leaves [1, 1].
C6_UpperCaseDupDuplicates ==
    [][FromFresh(Join(<<Tok1, TokDUP>>), <<1, 1>>)]_vars

----------------------------------------------------------------------------
(* C7 *)

\* C7: after any sequence of eval, push and pop calls reset() leaves the
\* engine as new with the same capacities left it: an empty stack, a
\* dictionary of the built-in words alone at their original addresses, FSM
\* state Execute and mode Interpreting.
C7_ResetRestoresPristine ==
    [][Reset => /\ stack' = [data |-> <<>>, capacity |-> stack.capacity]
                /\ dictionary' = [data |-> BuiltinsOnly, capacity |-> dictionary.capacity]
                /\ fsm' = "Execute"
                /\ mode' = "Interpreting"
                /\ ret'.status = "Ok"
                /\ Ctx' = new(stack.capacity, dictionary.capacity).ctx]_vars

\* reset() was the third call on the engine
C7_Witness ==
    /\ ret.op = "reset" /\ ret.status = "Ok" /\ calls = 3
    /\ stack.data = <<>> /\ dictionary.data = BuiltinsOnly /\ fsm = "Execute"

----------------------------------------------------------------------------
(* Dictionary<i32, i32> on its own, driven as the tests of dictionary.rs     *)
(* drive it.  `dictionary` is the receiver and `ret` the last call: its      *)
(* arguments, its result and the receiver it was made on.                    *)

\* the keys and values of the tests of dictionary.rs
DictKeys == {2, 4, 34}
DictValues == {3, 5}
OptKeys == {None} \cup {Some(k) : k \in DictKeys}

\* the addresses given to set_from_addr and get_from_addr
DictAddrs == {AsUsize(a) : a \in 0..MaxDictCapacity}

DictRet(op, key, value, out, err, before) ==
    [op |-> op, key |-> key, value |-> value, out |-> out, err |-> err,
     before |-> before]

\* the variables a Dictionary on its own does not use
DictUnused == <<stack, fsm, mode, overflow_checks, calls>>

\* Dictionary::new(capacity)
DictInit ==
    /\ \E capacity \in 0..MaxDictCapacity : dictionary = DictNew(capacity)
    /\ ret = DictRet("new", None, 0, None, "", DictNew(0))
    /\ stack = StackNew(0) /\ fsm = "Execute" /\ mode = "Interpreting"
    /\ overflow_checks = FALSE /\ calls = 0

Inserted(r, key, value) ==
    /\ dictionary' = r.dict
    /\ ret' = DictRet("insert", key, value, Some(r.addr), r.err, dictionary)

\* d.insert(key, value)
Insert(key, value) ==
    /\ Inserted(DictInsert(dictionary, key, value), key, value)
    /\ UNCHANGED DictUnused

WasSet(r, addr, value) ==
    /\ dictionary' = r.dict
    /\ ret' = DictRet("set_from_addr", Some(addr.n), value, None, r.err, dictionary)

\* d.set_from_addr(addr, value)
SetFromAddr(addr, value) ==
    /\ WasSet(DictSetFromAddr(dictionary, addr, value), addr, value)
    /\ UNCHANGED DictUnused

\* d.get_addr(key)
GetAddr(key) ==
    /\ ret' = DictRet("get_addr", Some(key), 0, DictGetAddr(dictionary, key), "",
                      dictionary)
    /\ UNCHANGED dictionary
    /\ UNCHANGED DictUnused

\* d.get_from_addr(addr)
GetFromAddr(addr) ==
    /\ ret' = DictRet("get_from_addr", Some(addr.n), 0,
                      DictGetFromAddr(dictionary, addr), "", dictionary)
    /\ UNCHANGED dictionary
    /\ UNCHANGED DictUnused

\* d.get(key)
Get(key) ==
    /\ ret' = DictRet("get", Some(key), 0, DictGet(dictionary, key), "", dictionary)
    /\ UNCHANGED dictionary
    /\ UNCHANGED DictUnused

\* d.clear()
Clear ==
    /\ dictionary' = DictClear(dictionary)
    /\ ret' = DictRet("clear", None, 0, None, "", dictionary)
    /\ UNCHANGED DictUnused

DictNext ==
    \/ \E key \in OptKeys, value \in DictValues : Insert(key, value)
    \/ \E addr \in DictAddrs, value \in DictValues : SetFromAddr(addr, value)
    \/ \E key \in DictKeys : GetAddr(key)
    \/ \E addr \in DictAddrs : GetFromAddr(addr)
    \/ \E key \in DictKeys : Get(key)
    \/ Clear

DictSpec == DictInit /\ [][DictNext]_vars

\* the 0-based addresses of the entries of data
Addrs(data) == 0..(Len(data) - 1)

\* the entry of data at the 0-based address a
EntryAt(data, a) == data[a + 1]

\* some entry of data is named by key
Named(data, key) ==
    key # None /\ \E a \in Addrs(data) : EntryAt(data, a).key = key

----------------------------------------------------------------------------
(* C8 *)

\* insert(Some(name), value) made on data, where name was at address i
ReplacesAt(data, i, name, value) ==
    /\ ret'.err = ""
    /\ ret'.out = Some(Len(data) - 1)
    /\ Len(dictionary'.data) = Len(data)
    /\ EntryAt(dictionary'.data, Len(data) - 1) = [key |-> Some(name), value |-> value]
    /\ \A j \in Addrs(data) :
          /\ j < i => EntryAt(dictionary'.data, j) = EntryAt(data, j)
          /\ j > i => EntryAt(dictionary'.data, j - 1) = EntryAt(data, j)
    /\ \A other \in DictKeys \ {name} :
          /\ DictGetAddr(dictionary, other) = None
                => DictGetAddr(dictionary', other) = None
          /\ \A j \in Addrs(data) :
                DictGetAddr(dictionary, other) = Some(j)
                  => DictGetAddr(dictionary', other) = Some(IF j > i THEN j - 1 ELSE j)

\* C8: insert(Some(name), value) when an entry named name is at address i
\* removes that entry and appends (name, value) at the last address, which
\* it returns; the entries above i move down by one address with name and
\* value unchanged, those below i are untouched, get_addr of each later
\* name drops by one and the length is unchanged.
C8_InsertExistingShifts ==
    [][\A name \in DictKeys, value \in DictValues, i \in 0..MaxDictCapacity :
          (/\ i \in Addrs(dictionary.data)
           /\ EntryAt(dictionary.data, i).key = Some(name)
           /\ Insert(Some(name), value))
            => ReplacesAt(dictionary.data, i, name, value)]_vars

\* an insert replaced the first of three entries, so that two moved down
C8_Witness ==
    /\ ret.op = "insert" /\ ret.err = ""
    /\ Len(ret.before.data) = 3
    /\ EntryAt(ret.before.data, 0).key = ret.key
    /\ EntryAt(ret.before.data, 1).key # None
    /\ ret.out = Some(2)
    /\ EntryAt(dictionary.data, 0) = EntryAt(ret.before.data, 1)

----------------------------------------------------------------------------
(* C9 *)

\* the dictionary holds `capacity` entries
AtCapacity == Len(dictionary.data) = dictionary.capacity

\* C9: insert fails with Overflow exactly when the dictionary holds
\* `capacity` entries and the key is None or names no entry, and then every
\* entry keeps its name, value and address; at capacity with a key that
\* names an entry insert succeeds.
C9_OverflowExactlyWhenFull ==
    [][\A key \in OptKeys, value \in DictValues :
          Insert(key, value)
            => /\ ret'.err \in {"", "Overflow"}
               /\ ret'.err = "Overflow"
                    <=> (AtCapacity /\ ~Named(dictionary.data, key))
               /\ ret'.err = "Overflow" => dictionary' = dictionary
               /\ (AtCapacity /\ Named(dictionary.data, key))
                    => (ret'.err = "" /\ AtCapacity')]_vars

\* an insert of a new name overflowed a full dictionary of two entries
C9_Witness ==
    /\ ret.op = "insert" /\ ret.err = "Overflow"
    /\ ret.key # None /\ ~Named(ret.before.data, ret.key)
    /\ Len(ret.before.data) = 2 /\ ret.before.capacity = 2
    /\ dictionary = ret.before

----------------------------------------------------------------------------
(* Stack<i32> on its own, driven as the tests of stack.rs drive it.          *)
(* `stack` is the receiver and `ret` the last call: its argument, its        *)
(* result and the receiver it was made on.                                   *)

StackValues == {0, 1, 2}

StackRet(op, data, val, err, before) ==
    [op |-> op, data |-> data, val |-> val, err |-> err, before |-> before]

\* the variables a Stack on its own does not use
StackUnused == <<dictionary, fsm, mode, overflow_checks, calls>>

\* Stack::new(capacity)
StackInit ==
    /\ \E capacity \in 0..MaxStackCapacity : stack = StackNew(capacity)
    /\ ret = StackRet("new", 0, 0, "", StackNew(0))
    /\ dictionary = DictNew(0) /\ fsm = "Execute" /\ mode = "Interpreting"
    /\ overflow_checks = FALSE /\ calls = 0

WasPushed(r, data) ==
    /\ stack' = r.stack
    /\ ret' = StackRet("push", data, 0, r.err, stack)

\* s.push(data)
StackPushCall(data) ==
    /\ WasPushed(StackPush(stack, data), data)
    /\ UNCHANGED StackUnused

WasPopped(r) ==
    /\ stack' = r.stack
    /\ ret' = StackRet("pop", 0, r.val, r.err, stack)

\* s.pop()
StackPopCall ==
    /\ WasPopped(StackPop(stack))
    /\ UNCHANGED StackUnused

\* s.clear()
StackClearCall ==
    /\ stack' = StackClear(stack)
    /\ ret' = StackRet("clear", 0, 0, "", stack)
    /\ UNCHANGED StackUnused

StackNext ==
    \/ \E data \in StackValues : StackPushCall(data)
    \/ StackPopCall
    \/ StackClearCall

StackSpec == StackInit /\ [][StackNext]_vars

----------------------------------------------------------------------------
(* C10 *)

\* the sequences of at most MaxStackCapacity values to push
RECURSIVE SeqsUpTo(_)
SeqsUpTo(n) ==
    IF n = 0 THEN {<<>>}
    ELSE SeqsUpTo(n - 1)
           \cup {Append(vs, v) : vs \in {ws \in SeqsUpTo(n - 1) : Len(ws) = n - 1},
                                 v \in StackValues}

RECURSIVE PushAll(_, _, _)
\* push vs[i], vs[i+1], ... on s, each push succeeding
PushAll(s, vs, i) ==
    IF i > Len(vs) THEN s ELSE PushAll(StackPush(s, vs[i]).stack, vs, i + 1)

RECURSIVE PopAll(_, _, _)
\* the values n pops on s return, in the order they are returned (out so
\* far), and the stack they leave
PopAll(s, n, out) ==
    IF n = 0 THEN [stack |-> s, vals |-> out]
    ELSE PopAll(StackPop(s).stack, n - 1, Append(out, StackPop(s).val))

Reverse(vs) == [i \in 1..Len(vs) |-> vs[Len(vs) + 1 - i]]

\* pushing vs on s and popping as many gives vs backwards and s again
PopsReversePushes(s, vs) ==
    PopAll(PushAll(s, vs, 1), Len(vs), <<>>) = [stack |-> s, vals |-> Reverse(vs)]

\* C10: the stack never holds more than `capacity` values; push appends when
\* length < capacity and otherwise returns Overflow and changes nothing; pop
\* on a non-empty stack removes and returns the value pushed last and leaves
\* the rest, pop on an empty stack returns Underflow and leaves it empty;
\* pushes that all succeed followed by as many pops return the values pushed
\* in reverse order.
C10_StackIsBoundedLifo ==
    [][/\ Len(stack.data) <= stack.capacity
       /\ Len(stack'.data) <= stack'.capacity
       /\ \A data \in StackValues :
             StackPushCall(data)
               => IF Len(stack.data) < stack.capacity
                  THEN ret'.err = "" /\ stack'.data = Append(stack.data, data)
                  ELSE ret'.err = "Overflow" /\ stack' = stack
       /\ StackPopCall
            => IF Len(stack.data) > 0
               THEN /\ ret'.err = ""
                    /\ ret'.val = stack.data[Len(stack.data)]
                    /\ stack'.data = SubSeq(stack.data, 1, Len(stack.data) - 1)
               ELSE ret'.err = "Underflow" /\ stack'.data = <<>>
       /\ (StackPushCall(ret'.data) /\ ret'.err = "")
            => (StackPop(stack').val = ret'.data /\ StackPop(stack').stack = stack)
       /\ \A vs \in SeqsUpTo(MaxStackCapacity) :
             Len(stack.data) + Len(vs) <= stack.capacity
               => PopsReversePushes(stack, vs)]_vars

\* a pop returned the last of three different values pushed and left the
\* other two
C10_Witness ==
    /\ ret.op = "pop" /\ ret.err = ""
    /\ ret.before.data = <<0, 1, 2>>
    /\ ret.val = 2
    /\ stack.data = <<0, 1>>

----------------------------------------------------------------------------
(* C11 *)

\* lines with `bye` in them, each after the tokens it has before `bye`
ByeLines ==
    { <<<<>>, TokBye>>,
      <<<<>>, Join(<<TokBye, Tok1>>)>>,
      <<Tok1, Join(<<Tok1, TokBye, Tok1>>)>> }

\* eval(before) returns Ok and leaves the FSM in Execute: what follows
\* `before` on a line is reached in Execute
ReachedInExecute(before) ==
    /\ eval(Ctx, before, overflow_checks).status = "Ok"
    /\ eval(Ctx, before, overflow_checks).ctx.fsm = "Execute"

\* C11: when `bye` is reached in Execute eval returns Shutdown at once: the
\* tokens before it were executed in order, the tokens after it have no
\* effect, and the engine is as it was when `bye` was reached.
C11_ByeShutsDown ==
    [][\A p \in ByeLines :
          (ret.status # Panic /\ ReachedInExecute(p[1]) /\ Eval(p[2]))
            => /\ ret'.status = "Shutdown"
               /\ Ctx' = eval(Ctx, p[1], overflow_checks).ctx]_vars

\* `1 bye 1` was evaluated on an empty stack: one 1 was pushed
C11_Witness ==
    ret.op = "eval" /\ ret.status = "Shutdown" /\ stack.data = <<1>> /\ calls = 1

----------------------------------------------------------------------------
(* C12 *)

\* tokens that are no numerals, and numerals with their values
NoNumerals == {TokDUP, TokBalance}
Literals == {<<Tok0, 0>>, <<Tok1, 1>>, <<Tok12, 12>>, <<TokM1, -1>>}

\* the token is looked up in Execute and is no name of the dictionary
Unknown(token) == fsm = "Execute" /\ find_word(Ctx, token) = None

\* the token is looked up in Execute and names a Data word
NamesData(token) ==
    /\ fsm = "Execute"
    /\ find_word(Ctx, token) # None
    /\ find_word(Ctx, token)[1].tag = "Data"

\* the step pushed v, or found the stack full and changed nothing
PushedOrFull(v) ==
    /\ dictionary' = dictionary /\ fsm' = fsm
    /\ IF Depth < stack.capacity
       THEN ret'.status = "Ok" /\ stack'.data = Append(stack.data, v)
       ELSE ret'.status = StackErr("Overflow") /\ stack' = stack

\* C12: in Execute a token is looked up in the dictionary and parsed as a
\* numeral only when absent: a token that is neither makes eval return a
\* numeral-parse error, the tokens after it are not processed and the
\* effects of the tokens before it remain; a numeral that is also a name of
\* the dictionary resolves to the dictionary entry, not to its value.
C12_NameBeforeNumeral ==
    [][/\ \A t \in NoNumerals :
             (Unknown(t) /\ Eval(t))
               => (ret'.status = ParseErr("InvalidDigit") /\ Ctx' = Ctx)
       /\ (Unknown(TokDUP) /\ Eval(Join(<<TokDUP, Tok1>>)))
            => (ret'.status = ParseErr("InvalidDigit") /\ Ctx' = Ctx)
       /\ (Unknown(TokDUP) /\ Unknown(Tok1) /\ Depth < stack.capacity
             /\ Eval(Join(<<Tok1, TokDUP>>)))
            => /\ ret'.status = ParseErr("InvalidDigit")
               /\ stack'.data = Append(stack.data, 1)
               /\ dictionary' = dictionary /\ fsm' = fsm
       /\ (Unknown(TokDUP) /\ NamesData(Tok1) /\ Depth < stack.capacity
             /\ Eval(Join(<<Tok1, TokDUP>>)))
            => /\ ret'.status = ParseErr("InvalidDigit")
               /\ stack'.data = Append(stack.data, find_word(Ctx, Tok1)[1].d)
               /\ dictionary' = dictionary /\ fsm' = fsm
       /\ \A l \in Literals :
             /\ (Unknown(l[1]) /\ Eval(l[1])) => PushedOrFull(l[2])
             /\ (NamesData(l[1]) /\ Eval(l[1]))
                  => PushedOrFull(find_word(Ctx, l[1])[1].d)]_vars

\* `var`, `1` and `1 DUP` were evaluated: the last 1 pushed the address in
\* the slot named 1 and stayed when DUP failed to parse
C12_Witness ==
    /\ ret.op = "eval" /\ ret.status = ParseErr("InvalidDigit") /\ calls = 3
    /\ find_word(Ctx, Tok1) = Some(Data(12))
    /\ stack.data = <<12>>

----------------------------------------------------------------------------
(* C13 *)

\* the words whose closures are `todo!()`
Stubs == {TokCreate, TokDoes}

\* C13: evaluating `create` or `does>` makes eval return an error value for
\* an unsupported operation, not an abort and not Ok, with stack and
\* dictionary unchanged, and the engine takes further calls afterwards.
C13_StubsReturnUnsupported ==
    [][\A t \in Stubs :
          (RunsBuiltin(t) /\ Eval(t))
            => /\ ret'.status \notin {Panic, "Ok", "Shutdown", "Yielding"}
               /\ stack' = stack /\ dictionary' = dictionary
               /\ calls' < MaxCalls => Callable']_vars

----------------------------------------------------------------------------
(* C14 *)

\* C14: `yield` reached in Execute makes eval return Yielding, the tokens
\* before it executed and the rest of the line discarded.
C14_YieldReturnsYielding ==
    [][(fsm = "Execute" /\ Eval(TokYield))
         => (ret'.status = "Yielding" /\ Ctx' = Ctx)]_vars

----------------------------------------------------------------------------
(* C15 *)

\* C15: for every stack_capacity and dictionary_capacity new returns an
\* engine, without abort, with an empty stack, FSM Execute, mode
\* Interpreting and the twelve built-in words registered, also when
\* dictionary_capacity is less than twelve.
C15_NewNeverAborts ==
    ret.op = "new"
      => /\ ret.status = "Ok"
         /\ stack.data = <<>> /\ fsm = "Execute" /\ mode = "Interpreting"
         /\ \A i \in 1..Len(Primitives) :
               find_word(Ctx, Primitives[i]) = Some(Builtin(Primitives[i]))

----------------------------------------------------------------------------
(* C16 *)

\* no two entries of data carry the same name
NamesUnique(data) ==
    \A i, j \in 1..Len(data) :
        (i # j /\ data[i].key # None) => data[i].key # data[j].key

\* C16: in every reachable state the stack holds at most stack capacity
\* values, the dictionary at most dictionary capacity entries, and no two
\* entries of the dictionary carry the same name.
C16_BoundedAndUnique ==
    /\ Len(stack.data) <= stack.capacity
    /\ Len(dictionary.data) <= dictionary.capacity
    /\ NamesUnique(dictionary.data)

\* a built-in name was declared again as a variable in a dictionary that is
\* now full, on a stack that is full
C16_Witness ==
    /\ Len(dictionary.data) = dictionary.capacity
    /\ Len(stack.data) = stack.capacity
    /\ find_word(Ctx, TokAdd) # None
    /\ find_word(Ctx, TokAdd)[1].tag = "Data"

----------------------------------------------------------------------------
(* C17 *)

\* the slot named `name` in d holds the address of a slot without a name
\* that holds the default value 0
HoldsAnonymousAddr(d, name) ==
    /\ DictGet(d, IdFrom(name)) # None
    /\ DictGet(d, IdFrom(name))[1].tag = "Data"
    /\ DictGetFromAddr(d, AsUsize(DictGet(d, IdFrom(name))[1].d))
         = Some([key |-> None, value |-> Data(0)])

\* C17: after every successful declaration `var <name>`, whether or not the
\* name was in the dictionary before, the slot of the name holds the
\* address of the anonymous slot the declaration made, which holds 0.
C17_NameHoldsAnonymousAddr ==
    [][\A name \in Tokens :
          (fsm = "GetVariable" /\ Eval(name) /\ ret'.status = "Ok")
            => HoldsAnonymousAddr(dictionary', name)]_vars

----------------------------------------------------------------------------
(* C18 *)

\* the engine waits for the name of a variable
Waiting == fsm = "GetVariable"

\* the step consumed `name` as the name of a variable, did not execute
\* it, and left the FSM in Execute
DeclaredNotRun(name) ==
    /\ ret'.status = "Ok"
    /\ fsm' = "Execute"
    /\ stack' = stack
    /\ find_word(Ctx', name) # None
    /\ Len(dictionary'.data) > Len(dictionary.data)

\* the dictionary has room for the declaration of `name`: one free slot
\* when the name is in it, two otherwise
RoomToDeclare(name) ==
    /\ Len(dictionary.data) < dictionary.capacity
    /\ find_word(Ctx, name) # None
         \/ Len(dictionary.data) + 1 < dictionary.capacity

\* a line that ends with `var`, reached in Execute, returns Ok and leaves
\* the FSM waiting; push, pop and the empty line leave it waiting
WaitsAcrossCalls ==
    /\ (fsm = "Execute" /\ Eval(TokVar))
         => (ret'.status = "Ok" /\ Waiting' /\ stack' = stack
             /\ dictionary' = dictionary)
    /\ (Waiting /\ fsm' = "Execute")
         => (ret'.op = "reset" \/ (ret'.op = "eval" /\ dictionary' # dictionary))

----------------------------------------------------------------------------
(* C19 *)

\* x is an address of the dictionary
ValidAddr(x) == 0 <= x /\ x < Len(dictionary.data)

\* the step replaced the value of the slot at addr by Data(value) and
\* nothing else of the dictionary
OnlyValueAt(addr, value) ==
    /\ dictionary'.capacity = dictionary.capacity
    /\ Len(dictionary'.data) = Len(dictionary.data)
    /\ \A a \in Addrs(dictionary.data) :
          /\ EntryAt(dictionary'.data, a).key = EntryAt(dictionary.data, a).key
          /\ EntryAt(dictionary'.data, a).value =
                IF a = addr THEN Data(value)
                ELSE EntryAt(dictionary.data, a).value

\* the name of the slot at addr, if it has one, resolves to Data(value)
NameResolvesTo(addr, value) ==
    EntryAt(dictionary.data, addr).key # None
        => DictGet(dictionary', EntryAt(dictionary.data, addr).key[1])
             = Some(Data(value))

\* C19: `!` pops the top as addr and the next as value.  A valid addr
\* has only the value of its slot replaced by Data(value): keys, length,
\* order and the other entries stay, and the name of the slot then
\* resolves to the data.  Any other addr gives
\* DictionaryErr(UndefinedAccess), the dictionary unchanged, both
\* operands consumed.
C19_StoreWritesOnlyTheSlot ==
    [][(RunsBuiltin(TokStore) /\ Depth >= 2 /\ Eval(TokStore))
         => /\ stack'.data = BelowTwo
            /\ fsm' = fsm
            /\ IF ValidAddr(Top)
               THEN /\ ret'.status = "Ok"
                    /\ OnlyValueAt(Top, Under)
                    /\ NameResolvesTo(Top, Under)
               ELSE /\ ret'.status = DictionaryErr("UndefinedAccess")
                    /\ dictionary' = dictionary]_vars

\* push(1), push(0) and `!` were called: the first built-in holds Data(1)
C19_Witness ==
    /\ ret.op = "eval" /\ ret.status = "Ok" /\ calls = 3
    /\ stack.data = <<>>
    /\ dictionary.data[1].key = BuiltinsOnly[1].key
    /\ dictionary.data[1].value = Data(1)

----------------------------------------------------------------------------
(* C20 *)

\* the stack below its top
BelowTop == SubSeq(stack.data, 1, Depth - 1)

\* the step pushed v in place of the top
ReplacedTopBy(v) == ret'.status = "Ok" /\ stack'.data = Append(BelowTop, v)

\* what `@` does with the slot e
FetchedFrom(e) ==
    IF e.value.tag = "Data" THEN ReplacedTopBy(e.value.d)
    ELSE e.key # None => ReplacedTopBy(Top)

\* C20: `@` pops addr and leaves the dictionary unchanged.  A slot that
\* holds Data has its data pushed, a named slot that holds a built-in has
\* its own address pushed, which is addr, and an addr outside the
\* dictionary, a negative one included, gives
\* AccessedUndefinedAtAddr(addr as usize) with addr popped.
C20_FetchReadsTheSlot ==
    [][(RunsBuiltin(TokFetch) /\ Depth >= 1 /\ Eval(TokFetch))
         => /\ dictionary' = dictionary
            /\ fsm' = fsm
            /\ IF ValidAddr(Top) THEN FetchedFrom(EntryAt(dictionary.data, Top))
               ELSE /\ ret'.status = "AccessedUndefinedAtAddr"
                    /\ ret'.at = AsUsize(Top)
                    /\ stack'.data = BelowTop]_vars


\* the line `-1` and then `@` were evaluated: the address -1, taken as an
\* unsigned one, is outside the dictionary, and the stack is empty again
C20_Witness ==
    /\ ret.op = "eval" /\ ret.status = "AccessedUndefinedAtAddr"
    /\ ret.at = AsUsize(-1) /\ calls = 2
    /\ stack.data = <<>> /\ dictionary.data = BuiltinsOnly


----------------------------------------------------------------------------
(* C21 *)

\* the step ended in an error value or pushed a 32-bit operand
ErrorOrOperand ==
    /\ ret'.status # Panic
    /\ ret'.status = "Ok" => (stack'.data # <<>> /\ IsI32(stack'.data[Len(stack'.data)]))

\* C21: on every pair of 32-bit operands each of + - * / pushes a 32-bit
\* operand or makes eval return an error value; no pair aborts the
\* process, not a sum, difference or product outside the 32-bit range and
\* not `/` with top = -2147483648 and next = -1.
C21_ArithmeticNeverAborts ==
    [][\A op \in BinaryOps :
          (Depth >= 2 /\ RunsBuiltin(op) /\ IsI32(Top) /\ IsI32(Under) /\ Eval(op))
            => ErrorOrOperand]_vars


----------------------------------------------------------------------------
(* C22 *)

\* C22: a declaration is all-or-nothing with respect to overflow: when
\* the name token, processed in GetVariable, fails with
\* DictionaryErr(Overflow), the dictionary is as it was before the token
\* (no orphaned anonymous slot) and the FSM is back in Execute.
C22_DeclarationAllOrNothing ==
    [][\A name \in Tokens :
          (Waiting /\ Eval(name) /\ ret'.status = DictionaryErr("Overflow"))
            => (dictionary' = dictionary /\ fsm' = "Execute")]_vars

====
